---- MODULE Spec2Model ----
(***************************************************************************)
(* Wake-cycle scheduler of the ESP32 + BME280 -> Supabase telemetry node.  *)
(*                                                                         *)
(* Two sketches are modelled:                                              *)
(*   "slot"  : ESP32/save_temperature_humidity_supabase/*.ino              *)
(*             (NTP minute check, epoch-aligned sleep, deepSleepSeconds)   *)
(*   "drift" : unnamed/part_000                                            *)
(*             (SNTP wait, phase-aligned sleep with drift compensation,    *)
(*              beginDeepSleep)                                            *)
(* One behaviour is a sequence of wake cycles of one sketch; each action   *)
(* is one stage of setup().                                                *)
(***************************************************************************)
EXTENDS Integers, Sequences, FiniteSets, TLC

(* ---------------------------- bounds ----------------------------------- *)

\* seconds of each synchronized clock window the wake instant is drawn from
WindowSecs == 3600
\* largest number of whole seconds a stage may take beyond its fixed waits
MaxStageSecs == 1
\* largest value of the never-synchronized clock (seconds since 1970) at wake
MaxBootSecs == 2
\* largest never-synchronized clock value at which a later cycle may start
MaxUnsyncedClock == 150
\* largest millis() - start at which a wait loop is still stepped
MaxLoopMs == 30000

(* ------------------------ program constants ---------------------------- *)

SLEEP_DURATION == 30
WAKE_TIME == 6
PERIOD == 1800
MIN_SLEEP == 10
FALLBACK_SLEEP == 60
SAFETY_SLEEP == 60
SANITY_EPOCH == 1700000000
\* getLocalTime(info) is called without ms: the core's default of 5000 ms
GET_LOCAL_TIME_SECS == 5
NTP_TIMEOUT_SECS == 20
SYNC_POLL_SECS == 10
DRIFT_EPSILON == 3
WIFI_CONNECT_TIMEOUT_MS == 15000
WIFI_POLL_MS == 250
SYNC_POLLS == 40
SYNC_POLL_MS == 250
NTP_TIMEOUT_MS == 20000
SNTP_POLL_MS == 100
GET_LOCAL_TIME_MS == 5000
GET_LOCAL_TIME_POLL_MS == 10
\* 1.0015f is the float 8401191 / 2^23 = 1 + 12583 / 2^23
FACTOR_FRAC == 12583
MANTISSA == 8388608

(* ------------------------ the clock and the zone ----------------------- *)

\* 2023-11-15 05:30:00 UTC and 10:00:00 UTC: the starts of the two windows,
\* the first one holding the reference hour WAKE_TIME (06:00)
WindowBaseA == 944459 * 1800
WindowBaseB == 944468 * 1800
\* 2017-01-01 00:00:00 UTC: first instant whose local year is after 2016
Year2017Epoch == 1483228800
\* "WET0WEST,M3.5.0/1,M10.5.0/2" for 2024: WEST from 2024-03-31 01:00 UTC
\* until 2024-10-27 01:00 UTC
DstStart2024 == 1711846800
DstEnd2024 == 1729990800

IsDst(e) == e >= DstStart2024 /\ e < DstEnd2024

UtcOffset(e) == IF IsDst(e) THEN 3600 ELSE 0

\* localtime_r: the calendar fields of epoch e; without tzset() the zone is UTC
LocalTime(e, tz) ==
  LET off == IF tz THEN UtcOffset(e) ELSE 0
      l == e + off
  IN [days |-> l \div 86400,
      hour |-> (l % 86400) \div 3600,
      min |-> (l % 3600) \div 60,
      sec |-> l % 60,
      isdst |-> tz /\ IsDst(e),
      yearOk |-> l >= Year2017Epoch]

\* tm timeInfo = {}
ZeroTm == [days |-> 0, hour |-> 0, min |-> 0, sec |-> 0,
           isdst |-> FALSE, yearOk |-> FALSE]

SyncedClocks ==
  (WindowBaseA .. (WindowBaseA + WindowSecs - 1))
  \cup (WindowBaseB .. (WindowBaseB + WindowSecs - 1))
UnsyncedClocks == 0 .. MaxBootSecs
Elapsed == 0 .. MaxStageSecs

(* ------------------- Strategy A: epoch-aligned boundary ---------------- *)

\* variant: rounds to the boundary at or before now
nextHalfHourBoundaryFloor(now) == (now \div PERIOD) * PERIOD

nextHalfHourBoundary(now) == ((now \div PERIOD) + 1) * PERIOD

secondsUntilNextHalfHourBoundary(now) ==
  LET next == nextHalfHourBoundary(now)
  IN IF next <= now THEN SAFETY_SLEEP ELSE next - now

\* variant: quarter hours pass the slot check as well
isMinuteSlotQuarter(nowLocal, tz) ==
  LET t == LocalTime(nowLocal, tz) IN t.min % 15 = 0

isMinuteSlot(nowLocal, tz) ==
  LET t == LocalTime(nowLocal, tz) IN t.min = 0 \/ t.min = 30

\* variant: tm_isdst is ignored and the fields are taken as standard time
MkTimeNoDst(localSecs, isdst) == localSecs

\* mktime of local calendar seconds, the offset taken from tm_isdst
MkTime(localSecs, isdst) == localSecs - (IF isdst THEN 3600 ELSE 0)

\* targetEpoch of secondsUntilNextHalfHourSlot: the next local minute 0 or 30
SlotTargetEpoch(nowLocal, tz) ==
  LET t == LocalTime(nowLocal, tz)
      targetMin == IF t.min < 30 THEN 30 ELSE 0
      addHours == IF t.min < 30 THEN 0 ELSE 1
  IN MkTime(t.days * 86400 + (t.hour + addHours) * 3600 + targetMin * 60,
            t.isdst)

secondsUntilNextHalfHourSlot(nowLocal, tz) ==
  LET targetEpoch == SlotTargetEpoch(nowLocal, tz)
  IN IF targetEpoch <= nowLocal THEN SAFETY_SLEEP ELSE targetEpoch - nowLocal

\* variant: the minimum is one minute
ClampSleepMinute(seconds) == IF seconds < 60 THEN 60 ELSE seconds

\* variant: the minimum is 5 s
ClampSleepFive(seconds) == IF seconds < 5 THEN 5 ELSE seconds

\* variant: no minimum is applied
ClampSleepOff(seconds) == seconds

\* deepSleepSeconds: the duration handed to esp_sleep_enable_timer_wakeup
ClampSleep(seconds) == IF seconds < MIN_SLEEP THEN MIN_SLEEP ELSE seconds

(* ------------- Strategy B: phase-aligned, drift compensated ------------ *)

Pow2(n) == 2 ^ n

\* the exponent of the leading bit of x
Log2Floor(x) ==
  IF x < 2 THEN 0 ELSE CHOOSE k \in 1 .. 30 : Pow2(k) <= x /\ x \div 2 < Pow2(k)

\* (uint64_t)((float)x * 1.0015f): the exact product is x + q / 2^23 with
\* q = x * 12583; it is rounded to a 24-bit significand (nearest, ties to
\* even) and then truncated
MulFactor(x) ==
  LET q == x * FACTOR_FRAC
      c == q \div MANTISSA
      r == q % MANTISSA
      e == Log2Floor(x + c)
      roundsUp == e >= 1 /\ r >= MANTISSA - Pow2(e - 1)
  IN IF x = 0 THEN 0 ELSE x + c + (IF roundsUp THEN 1 ELSE 0)

CurHour(tm) == (tm.hour - WAKE_TIME + 24) % 24
CurMinute(tm) == CurHour(tm) * 60 + tm.min
CurSecond(tm) == CurHour(tm) * 3600 + tm.min * 60 + tm.sec
DesiredSleepSeconds == SLEEP_DURATION * 60
OffsetMinutes(tm) == CurMinute(tm) % SLEEP_DURATION
OffsetSeconds(tm) == CurSecond(tm) % DesiredSleepSeconds

\* offsetSeconds / (float)desiredSleepSeconds > 0.95f; the correctly rounded
\* quotient is monotone and 1710 / 1800 rounds to 0.95f itself
OverFraction(tm) == OffsetSeconds(tm) * 100 > 95 * DesiredSleepSeconds

\* variant: the skip-ahead floor is one minute
SkipAheadOneMinute(tm) ==
  \/ DesiredSleepSeconds - OffsetSeconds(tm) < 60
  \/ OverFraction(tm)

\* variant: only the elapsed-fraction test decides
SkipAheadFractionOnly(tm) == OverFraction(tm)

SkipAhead(tm) ==
  \/ DesiredSleepSeconds - OffsetSeconds(tm) < 120
  \/ OverFraction(tm)

\* variant: the minute in progress is counted as already elapsed
SleepMinutesShort(tm) ==
  (SLEEP_DURATION - OffsetMinutes(tm) - 1)
  + (IF SkipAhead(tm) THEN SLEEP_DURATION ELSE 0)

SleepMinutes(tm) ==
  (SLEEP_DURATION - OffsetMinutes(tm))
  + (IF SkipAhead(tm) THEN SLEEP_DURATION ELSE 0)

\* variant: the 3 s are not added
SleepDurationBNoEpsilon(tm) ==
  MulFactor(SleepMinutes(tm) * 60 - tm.sec)

SleepDurationB(tm) ==
  MulFactor(SleepMinutes(tm) * 60 - tm.sec + DRIFT_EPSILON)

\* variant: the hours since the reference hour are scaled by 60, not 3600
SleepDurationAtHourAsMinutes(tm, wakeTime) ==
  LET curHour == (tm.hour - wakeTime + 24) % 24
      curMinute == curHour * 60 + tm.min
      curSecond == curHour * 60 + tm.min * 60 + tm.sec
      offsetMinutes == curMinute % SLEEP_DURATION
      offsetSeconds == curSecond % DesiredSleepSeconds
      skip == \/ DesiredSleepSeconds - offsetSeconds < 120
              \/ offsetSeconds * 100 > 95 * DesiredSleepSeconds
      minutes == (SLEEP_DURATION - offsetMinutes)
                 + (IF skip THEN SLEEP_DURATION ELSE 0)
  IN MulFactor(minutes * 60 - tm.sec + DRIFT_EPSILON)

\* the sleepDuration of beginDeepSleep as a function of the time read and of
\* the value of WAKE_TIME
SleepDurationAt(tm, wakeTime) ==
  LET curHour == (tm.hour - wakeTime + 24) % 24
      curMinute == curHour * 60 + tm.min
      curSecond == curHour * 3600 + tm.min * 60 + tm.sec
      offsetMinutes == curMinute % SLEEP_DURATION
      offsetSeconds == curSecond % DesiredSleepSeconds
      skip == \/ DesiredSleepSeconds - offsetSeconds < 120
              \/ offsetSeconds * 100 > 95 * DesiredSleepSeconds
      minutes == (SLEEP_DURATION - offsetMinutes)
                 + (IF skip THEN SLEEP_DURATION ELSE 0)
  IN MulFactor(minutes * 60 - tm.sec + DRIFT_EPSILON)

(* ------------------------------ state ---------------------------------- *)

VARIABLES
  sketch,        \* "slot" or "drift": which sketch is flashed
  pc,            \* position in setup()
  clock,         \* what time() returns, epoch seconds
  tzSet,         \* tzset() with TZ_INFO has run in this cycle
  wifiUp,        \* WiFi.status() == WL_CONNECTED
  pwrPin,        \* level of PIN_BME_PWR
  timeInfo,      \* tm timeInfo of the drift sketch
  events,        \* stage calls made in this cycle, in order
  failed,        \* the stage whose call returned false, or "none"
  syncTimedOut,  \* the time-sync wait of this cycle ran out without success
  slotMinute,    \* tm_min seen by isMinuteSlot, -1 before the check
  sleepFrom,     \* the time the sleep duration was computed from
  waitSec,       \* waitSec of the slot sketch's setup(), 0 before
  sleepMinutes,  \* sleepMinutes of beginDeepSleep, 0 before
  sleepDuration, \* seconds handed to esp_sleep_enable_timer_wakeup
  sleepCalls,    \* calls of esp_deep_sleep_start in this cycle
  postCode,      \* return value of postToSupabase, 0 before
  polls,         \* iterations made by the wait loop last entered
  ms,            \* millis() - start of the wait loop being run
  localTimeCalls,\* calls of getLocalTime made by printLocalTime
  wokeFrom       \* the branch of setup() that started the sleep before
                 \* this cycle; "boot" when the cycle follows no such sleep

vars == <<sketch, pc, clock, tzSet, wifiUp, pwrPin, timeInfo, events, failed,
          syncTimedOut, slotMinute, sleepFrom, waitSec, sleepMinutes, sleepDuration, sleepCalls,
          postCode, polls, ms, localTimeCalls, wokeFrom>>

pollVars == <<polls, ms, localTimeCalls, wokeFrom>>

Sketches == {"slot", "drift"}
PostCodes == {-1, 0, 200, 201, 204, 500}

\* variant: the sensor is initialised right after the WiFi connection
StageAfterNoTimeSync(sk, stage) ==
  CASE stage = "connectWiFi" -> "initBME"
    [] stage = "initBME" -> "readSensor"
    [] stage = "readSensor" -> "post"
    [] stage = "post" -> "finalSleep"
    [] OTHER -> "returned"

\* the order of the stages in setup(); "returned" is the end of setup()
StageAfter(sk, stage) ==
  CASE stage = "connectWiFi" ->
         (IF sk = "slot" THEN "syncTime" ELSE "waitForSNTPSync")
    [] stage = "syncTime" -> "slotCheck"
    [] stage = "waitForSNTPSync" -> "initBME"
    [] stage = "slotCheck" -> "initBME"
    [] stage = "initBME" -> "readSensor"
    [] stage = "readSensor" -> "post"
    [] stage = "post" -> "finalSleep"
    [] OTHER -> "returned"

\* variant: the sleep call returns and setup() falls through to the next stage
AfterSleepReturns(next) == next

\* esp_deep_sleep_start() does not return: setup() goes no further
AfterSleep(next) == "asleep"

Init ==
  /\ sketch \in Sketches
  /\ pc = "connectWiFi"
  /\ clock \in SyncedClocks \cup UnsyncedClocks
  /\ tzSet = FALSE
  /\ wifiUp = FALSE
  /\ pwrPin = "LOW"
  /\ timeInfo = ZeroTm
  /\ events = <<>>
  /\ failed = "none"
  /\ syncTimedOut = FALSE
  /\ slotMinute = -1
  /\ sleepFrom = -1
  /\ waitSec = 0
  /\ sleepMinutes = 0
  /\ sleepDuration = 0
  /\ sleepCalls = 0
  /\ postCode = 0
  /\ polls = 0
  /\ ms = 0
  /\ localTimeCalls = 0
  /\ wokeFrom = "boot"

(* ------------------------- the two sleep helpers ----------------------- *)

\* deepSleepSeconds(seconds) of the slot sketch, called at time c
DeepSleepSeconds(seconds, c, next, ev) ==
  /\ clock' = c
  /\ sleepFrom' = c
  /\ waitSec' = seconds
  /\ sleepDuration' = ClampSleep(seconds)
  /\ sleepCalls' = sleepCalls + 1
  /\ events' = events \o ev \o <<"sleep">>
  /\ pc' = AfterSleep(next)
  /\ UNCHANGED <<timeInfo, sleepMinutes>>

\* getLocalTime(info, 5000): true at once when the year is after 2016;
\* otherwise it polls for 5 s, leaves the last reading in info, returns false
GetLocalTimeOk(c, tz) == LocalTime(c, tz).yearOk

ClockAfterGetLocalTime(c, tz) ==
  IF GetLocalTimeOk(c, tz) THEN c ELSE c + GET_LOCAL_TIME_SECS

\* printLocalTime(timeInfo) called at time c: the body of its while loop is
\* 'return false', so the first failed getLocalTime ends it (attempts is 0
\* when it is tested); calls counts the getLocalTime calls made
PrintLocalTime(c, tz) ==
  LET attempts == 0
      ok == GetLocalTimeOk(c, tz)
  IN IF ~ok /\ attempts < 3
       THEN [ok |-> FALSE, clock |-> ClockAfterGetLocalTime(c, tz),
             calls |-> 1]
       ELSE [ok |-> TRUE, clock |-> ClockAfterGetLocalTime(c, tz),
             calls |-> 1]

\* beginDeepSleep(startTime, &timeInfo) of the drift sketch, called at time c
\* beginDeepSleep after its getLocalTime call has left info at time c; tm is
\* the struct read, evaluated once
BeginDeepSleepTail(c, info, next, ev) ==
  /\ clock' = c
  /\ sleepFrom' = c
  /\ \E tm \in {info} :
       /\ timeInfo' = tm
       /\ sleepMinutes' = SleepMinutes(tm)
       /\ sleepDuration' = SleepDurationB(tm)
  /\ UNCHANGED waitSec
  /\ sleepCalls' = sleepCalls + 1
  /\ events' = events \o ev \o <<"sleep">>
  /\ pc' = AfterSleep(next)

BeginDeepSleep(c, tz, next, ev) ==
  LET c2 == ClockAfterGetLocalTime(c, tz)
  IN BeginDeepSleepTail(c2, LocalTime(c2, tz), next, ev)

\* a stage that returns true: setup() goes on to the next stage
Advance(c, info, next, ev) ==
  /\ clock' = c
  /\ timeInfo' = info
  /\ events' = events \o ev
  /\ pc' = next
  /\ UNCHANGED <<sleepFrom, waitSec, sleepMinutes, sleepDuration, sleepCalls>>

(* ------------------------------ stages --------------------------------- *)

Nxt == StageAfter(sketch, pc)

\* connectWiFi() and the failure branch of setup()
ConnectWiFi ==
  /\ pc = "connectWiFi"
  /\ \E ok \in BOOLEAN, d \in Elapsed :
       /\ wifiUp' = ok
       /\ failed' = IF ok THEN failed ELSE "network"
       /\ IF ok
            THEN Advance(clock + d, timeInfo,
                         Nxt, <<"connectWiFi">>)
            ELSE IF sketch = "slot"
              THEN DeepSleepSeconds(FALLBACK_SLEEP, clock + d, Nxt,
                                    <<"connectWiFi">>)
              ELSE BeginDeepSleep(clock + d, tzSet, Nxt,
                                  <<"connectWiFi">>)
  /\ UNCHANGED <<sketch, tzSet, pwrPin, syncTimedOut, slotMinute, postCode>>
  /\ UNCHANGED pollVars

\* syncTime() of the slot sketch: true as soon as a poll reads an epoch above
\* the sanity threshold, false after 40 polls 250 ms apart
SyncTime ==
  /\ pc = "syncTime"
  /\ sketch = "slot"
  /\ tzSet' = TRUE
  /\ \/ /\ clock > SANITY_EPOCH
        /\ Advance(clock, timeInfo, Nxt, <<"syncTime">>)
        /\ UNCHANGED <<failed, syncTimedOut>>
     \/ /\ clock <= SANITY_EPOCH
        /\ wifiUp
        /\ \E c \in SyncedClocks :
             Advance(c, timeInfo, Nxt, <<"syncTime">>)
        /\ UNCHANGED <<failed, syncTimedOut>>
     \/ /\ clock <= SANITY_EPOCH
        /\ failed' = "time"
        /\ syncTimedOut' = TRUE
        /\ DeepSleepSeconds(FALLBACK_SLEEP, clock + SYNC_POLL_SECS,
                            Nxt, <<"syncTime">>)
  /\ UNCHANGED <<sketch, wifiUp, pwrPin, slotMinute, postCode>>
  /\ UNCHANGED pollVars

\* configTzTime() and waitForSNTPSync() of the drift sketch, then the
\* !timeConfigured branch of setup()
WaitForSNTPSync ==
  /\ pc = "waitForSNTPSync"
  /\ sketch = "drift"
  /\ tzSet' = TRUE
  /\ \/ \* SNTP completes within NTP_TIMEOUT_MS and sets the clock
        /\ wifiUp
        /\ \E c \in (IF clock > SANITY_EPOCH
                       THEN {clock + d : d \in Elapsed} ELSE SyncedClocks) :
             Advance(c, LocalTime(c, TRUE), Nxt, <<"waitForSNTPSync">>)
        /\ UNCHANGED <<failed, wifiUp, syncTimedOut>>
     \/ \* the status stays RESET for 20 s; printLocalTime decides
        LET c == clock + NTP_TIMEOUT_SECS
        IN /\ syncTimedOut' = TRUE
           /\ IF GetLocalTimeOk(c, TRUE)
                THEN /\ Advance(c, LocalTime(c, TRUE), Nxt,
                                <<"waitForSNTPSync">>)
                     /\ UNCHANGED <<failed, wifiUp>>
                ELSE /\ failed' = "time"
                     /\ wifiUp' = FALSE
                     /\ BeginDeepSleep(ClockAfterGetLocalTime(c, TRUE), TRUE,
                                       Nxt, <<"waitForSNTPSync">>)
  /\ UNCHANGED <<sketch, pwrPin, slotMinute, postCode>>
  /\ localTimeCalls' = PrintLocalTime(clock, TRUE).calls
  /\ UNCHANGED <<polls, ms, wokeFrom>>

\* time(&nowLocal) and the !isMinuteSlot branch of the slot sketch
SlotCheck ==
  /\ pc = "slotCheck"
  /\ sketch = "slot"
  /\ slotMinute' = LocalTime(clock, tzSet).min
  /\ IF isMinuteSlot(clock, tzSet)
       THEN Advance(clock, timeInfo, Nxt, <<"slotCheck">>)
       ELSE DeepSleepSeconds(secondsUntilNextHalfHourBoundary(clock), clock,
                             Nxt, <<"slotCheck">>)
  /\ UNCHANGED <<sketch, tzSet, wifiUp, pwrPin, failed, syncTimedOut, postCode>>
  /\ UNCHANGED pollVars

\* initBME() drives PIN_BME_PWR high; bme.begin() may fail, and setup() then
\* sleeps without calling powerDownBME()
InitBME ==
  /\ pc = "initBME"
  /\ pwrPin' = "HIGH"
  /\ \E ok \in BOOLEAN, d \in Elapsed :
       /\ failed' = IF ok THEN failed ELSE "sensor"
       /\ IF ok
            THEN /\ Advance(clock + d, timeInfo, Nxt, <<"initBME">>)
                 /\ UNCHANGED wifiUp
            ELSE IF sketch = "slot"
              THEN /\ DeepSleepSeconds(
                        secondsUntilNextHalfHourSlot(clock + d, tzSet),
                        clock + d, Nxt, <<"initBME">>)
                   /\ UNCHANGED wifiUp
              ELSE /\ wifiUp' = FALSE
                   /\ BeginDeepSleep(clock + d, tzSet, Nxt,
                                     <<"initBME">>)
  /\ UNCHANGED <<sketch, tzSet, syncTimedOut, slotMinute, postCode>>
  /\ UNCHANGED pollVars

\* bme.readTemperature(), bme.readHumidity(), powerDownBME()
ReadSensor ==
  /\ pc = "readSensor"
  /\ pwrPin' = "LOW"
  /\ Advance(clock, timeInfo, Nxt, <<"readSensor", "powerDown">>)
  /\ UNCHANGED <<sketch, tzSet, wifiUp, failed, syncTimedOut, slotMinute,
                 postCode>>
  /\ UNCHANGED pollVars

IsSuccessCode(code) == code \in {200, 201, 204}

\* postToSupabase(): setup() discards the returned status
Post ==
  /\ pc = "post"
  /\ \E code \in PostCodes, d \in Elapsed :
       /\ postCode' = code
       /\ failed' = IF IsSuccessCode(code) THEN failed ELSE "transmit"
       /\ Advance(clock + d, timeInfo, Nxt, <<"post">>)
  /\ UNCHANGED <<sketch, tzSet, wifiUp, pwrPin, syncTimedOut, slotMinute>>
  /\ UNCHANGED pollVars

\* the last statements of setup(): sleep to the next slot
FinalSleep ==
  /\ pc = "finalSleep"
  /\ IF sketch = "slot"
       THEN /\ DeepSleepSeconds(secondsUntilNextHalfHourBoundary(clock),
                                clock, Nxt, <<>>)
            /\ UNCHANGED wifiUp
       ELSE /\ wifiUp' = FALSE
            /\ BeginDeepSleep(clock, tzSet, Nxt, <<>>)
  /\ UNCHANGED <<sketch, tzSet, pwrPin, failed, syncTimedOut, slotMinute,
                 postCode>>
  /\ UNCHANGED pollVars

\* the timer fires: the chip resets and setup() starts again; only the RTC
\* clock survives the sleep
ClockDomain == SyncedClocks \cup (0 .. MaxUnsyncedClock)

\* the call site in setup() that started the sleep the device is in
SleepBranch ==
  IF failed \in {"network", "time", "sensor"} THEN failed
  ELSE IF sketch = "slot" /\ slotMinute \notin {0, 30} THEN "slotMiss"
  ELSE "done"

WakeAt(c) ==
  /\ clock' = c
  /\ pc' = "connectWiFi"
  /\ tzSet' = FALSE
  /\ wifiUp' = FALSE
  /\ pwrPin' = "LOW"
  /\ timeInfo' = ZeroTm
  /\ events' = <<>>
  /\ failed' = "none"
  /\ syncTimedOut' = FALSE
  /\ slotMinute' = -1
  /\ sleepFrom' = -1
  /\ waitSec' = 0
  /\ sleepMinutes' = 0
  /\ sleepDuration' = 0
  /\ sleepCalls' = 0
  /\ postCode' = 0
  /\ polls' = 0
  /\ ms' = 0
  /\ localTimeCalls' = 0
  /\ wokeFrom' = SleepBranch
  /\ UNCHANGED sketch

Wake ==
  /\ pc = "asleep"
  /\ \E d \in Elapsed :
       /\ clock + sleepDuration + d \in ClockDomain
       /\ WakeAt(clock + sleepDuration + d)

Next ==
  \/ ConnectWiFi
  \/ SyncTime
  \/ WaitForSNTPSync
  \/ SlotCheck
  \/ InitBME
  \/ ReadSensor
  \/ Post
  \/ FinalSleep
  \/ Wake

Spec == Init /\ [][Next]_vars

(* --------- beginDeepSleep over every second of one day ----------------- *)

\* 2023-11-15 00:00:00 UTC
DayBase == 19676 * 86400
DayClocks == DayBase .. (DayBase + 24 * 3600 - 1)

\* the drift sketch just before the last beginDeepSleep of a cycle in which
\* every stage succeeded, at any second of the day
InitDay ==
  /\ sketch = "drift"
  /\ pc = "finalSleep"
  /\ clock \in DayClocks
  /\ tzSet = TRUE
  /\ wifiUp = TRUE
  /\ pwrPin = "LOW"
  /\ timeInfo = LocalTime(clock, TRUE)
  /\ events = <<"connectWiFi", "waitForSNTPSync", "initBME", "readSensor",
                "powerDown", "post">>
  /\ failed = "none"
  /\ syncTimedOut = FALSE
  /\ slotMinute = -1
  /\ sleepFrom = -1
  /\ waitSec = 0
  /\ sleepMinutes = 0
  /\ sleepDuration = 0
  /\ sleepCalls = 0
  /\ postCode = 201
  /\ polls = 0
  /\ ms = 0
  /\ localTimeCalls = 1
  /\ wokeFrom = "boot"

NextDay == FinalSleep

SpecDay == InitDay /\ [][NextDay]_vars

(* --------------- the wait loops, one iteration per step ---------------- *)

\* variant: an epoch equal to the threshold is accepted
EpochIsSaneInclusive(now) == now >= SANITY_EPOCH

\* the test 'now > 1700000000' of syncTime
EpochIsSane(now) == now > SANITY_EPOCH

\* variant: the loop has no deadline
WiFiWaitOverNoDeadline(up, elapsed) == up

\* the condition of the while loop of connectWiFi is false
WiFiWaitOver(up, elapsed) == up \/ elapsed >= WIFI_CONNECT_TIMEOUT_MS

\* the clock after delay(step), the loop having run for elapsed ms
ClockAfterDelay(c, elapsed, step) ==
  c + ((elapsed + step) \div 1000) - (elapsed \div 1000)

\* epochs an NTP answer may set the clock to: the threshold itself, the
\* second after it, 10:17:00 and 10:29:55 UTC of 2023-11-15
NtpEpochs ==
  {SANITY_EPOCH, SANITY_EPOCH + 1, WindowBaseB + 17 * 60,
   WindowBaseB + 29 * 60 + 55}

\* wake instants: a never-synchronized clock, 10:17:00 and the 20 seconds
\* before the boundary 10:30:00
PollInitClocks ==
  {0, WindowBaseB + 17 * 60}
  \cup ((WindowBaseB + 29 * 60 + 40) .. (WindowBaseB + 29 * 60 + 59))

PollClockDomain ==
  (0 .. MaxUnsyncedClock) \cup (WindowBaseB .. (WindowBaseB + WindowSecs + 120))

InitPoll ==
  /\ sketch \in Sketches
  /\ pc = "connectWiFi"
  /\ clock \in PollInitClocks
  /\ tzSet = FALSE
  /\ wifiUp = FALSE
  /\ pwrPin = "LOW"
  /\ timeInfo = ZeroTm
  /\ events = <<>>
  /\ failed = "none"
  /\ syncTimedOut = FALSE
  /\ slotMinute = -1
  /\ sleepFrom = -1
  /\ waitSec = 0
  /\ sleepMinutes = 0
  /\ sleepDuration = 0
  /\ sleepCalls = 0
  /\ postCode = 0
  /\ polls = 0
  /\ ms = 0
  /\ localTimeCalls = 0
  /\ wokeFrom = "boot"

\* one iteration of the while loop of connectWiFi: delay(250)
WiFiPoll ==
  /\ pc = "connectWiFi"
  /\ ~WiFiWaitOver(wifiUp, ms)
  /\ ms < MaxLoopMs
  /\ ms' = ms + WIFI_POLL_MS
  /\ polls' = polls + 1
  /\ clock' = ClockAfterDelay(clock, ms, WIFI_POLL_MS)
  /\ wifiUp' \in BOOLEAN
  /\ UNCHANGED <<sketch, pc, tzSet, pwrPin, timeInfo, events, failed,
                 syncTimedOut, slotMinute, sleepFrom, waitSec, sleepMinutes,
                 sleepDuration, sleepCalls, postCode, localTimeCalls,
                 wokeFrom>>

\* the end of connectWiFi and the branch of setup() on its result; in the
\* drift sketch the failure branch enters beginDeepSleep
WiFiDone ==
  /\ pc = "connectWiFi"
  /\ WiFiWaitOver(wifiUp, ms)
  /\ IF wifiUp
       THEN /\ Advance(clock, timeInfo, Nxt, <<"connectWiFi">>)
            /\ polls' = 0
            /\ ms' = 0
            /\ UNCHANGED failed
       ELSE /\ failed' = "network"
            /\ IF sketch = "slot"
                 THEN /\ DeepSleepSeconds(FALLBACK_SLEEP, clock, Nxt,
                                          <<"connectWiFi">>)
                      /\ UNCHANGED <<polls, ms>>
                 ELSE /\ pc' = "beginDeepSleep"
                      /\ events' = events \o <<"connectWiFi">>
                      /\ polls' = 0
                      /\ ms' = 0
                      /\ UNCHANGED <<clock, timeInfo, sleepFrom, waitSec,
                                     sleepMinutes, sleepDuration, sleepCalls>>
  /\ UNCHANGED <<sketch, tzSet, wifiUp, pwrPin, syncTimedOut, slotMinute,
                 postCode, localTimeCalls, wokeFrom>>

\* one iteration of the for loop of syncTime: time(&now), the test, and
\* delay(250) during which an NTP answer may set the clock
SyncPoll ==
  /\ pc = "syncTime"
  /\ sketch = "slot"
  /\ polls < SYNC_POLLS
  /\ tzSet' = TRUE
  /\ IF EpochIsSane(clock)
       THEN /\ Advance(clock, timeInfo, Nxt, <<"syncTime">>)
            /\ UNCHANGED <<polls, ms>>
       ELSE /\ polls' = polls + 1
            /\ ms' = ms + SYNC_POLL_MS
            /\ clock' \in {ClockAfterDelay(clock, ms, SYNC_POLL_MS)}
                          \cup (IF wifiUp THEN NtpEpochs ELSE {})
            /\ UNCHANGED <<pc, timeInfo, events, sleepFrom, waitSec,
                           sleepMinutes, sleepDuration, sleepCalls>>
  /\ UNCHANGED <<sketch, wifiUp, pwrPin, failed, syncTimedOut, slotMinute,
                 postCode, localTimeCalls, wokeFrom>>

\* syncTime returns false after its last iteration; setup() sleeps 60 s
SyncGiveUp ==
  /\ pc = "syncTime"
  /\ sketch = "slot"
  /\ ~(polls < SYNC_POLLS)
  /\ failed' = "time"
  /\ syncTimedOut' = TRUE
  /\ DeepSleepSeconds(FALLBACK_SLEEP, clock, Nxt, <<"syncTime">>)
  /\ UNCHANGED <<sketch, tzSet, wifiUp, pwrPin, slotMinute, postCode,
                 pollVars>>

\* configTzTime, then one delay(100) of waitForSNTPSync; when the status
\* leaves RESET the loop ends and printLocalTime is called
SntpPoll ==
  /\ pc = "waitForSNTPSync"
  /\ sketch = "drift"
  /\ ms < NTP_TIMEOUT_MS
  /\ ms < MaxLoopMs
  /\ tzSet' = TRUE
  /\ \/ /\ ms' = ms + SNTP_POLL_MS
        /\ polls' = polls + 1
        /\ clock' = ClockAfterDelay(clock, ms, SNTP_POLL_MS)
        /\ UNCHANGED pc
     \/ /\ wifiUp
        /\ clock' \in (IF clock > SANITY_EPOCH
                         THEN {ClockAfterDelay(clock, ms, SNTP_POLL_MS)}
                         ELSE NtpEpochs)
        /\ pc' = "printLocalTime"
        /\ ms' = 0
        /\ polls' = 0
  /\ UNCHANGED <<sketch, wifiUp, pwrPin, timeInfo, events, failed,
                 syncTimedOut, slotMinute, sleepFrom, waitSec, sleepMinutes,
                 sleepDuration, sleepCalls, postCode, localTimeCalls,
                 wokeFrom>>

\* millis() has reached timeout with the status still RESET
SntpTimeout ==
  /\ pc = "waitForSNTPSync"
  /\ sketch = "drift"
  /\ ~(ms < NTP_TIMEOUT_MS)
  /\ tzSet' = TRUE
  /\ syncTimedOut' = TRUE
  /\ pc' = "printLocalTime"
  /\ ms' = 0
  /\ polls' = 0
  /\ UNCHANGED <<sketch, clock, wifiUp, pwrPin, timeInfo, events, failed,
                 slotMinute, sleepFrom, waitSec, sleepMinutes, sleepDuration,
                 sleepCalls, postCode, localTimeCalls, wokeFrom>>

\* one iteration of the loop of getLocalTime that read an invalid year, and
\* its delay(10); called from printLocalTime or from beginDeepSleep
TimeReadPoll ==
  /\ pc \in {"printLocalTime", "beginDeepSleep"}
  /\ ms <= GET_LOCAL_TIME_MS
  /\ ms < MaxLoopMs
  /\ ~GetLocalTimeOk(clock, tzSet)
  /\ timeInfo' = LocalTime(clock, tzSet)
  /\ ms' = ms + GET_LOCAL_TIME_POLL_MS
  /\ polls' = polls + 1
  /\ clock' \in {ClockAfterDelay(clock, ms, GET_LOCAL_TIME_POLL_MS)}
                \cup (IF pc = "printLocalTime" /\ wifiUp
                        THEN NtpEpochs ELSE {})
  /\ UNCHANGED <<sketch, pc, tzSet, wifiUp, pwrPin, events, failed,
                 syncTimedOut, slotMinute, sleepFrom, waitSec, sleepMinutes,
                 sleepDuration, sleepCalls, postCode, localTimeCalls,
                 wokeFrom>>

\* getLocalTime returns to printLocalTime, which returns to setup(): the
\* body of its while loop returns false at the first failed read
PrintLocalTimeReturn ==
  /\ pc = "printLocalTime"
  /\ GetLocalTimeOk(clock, tzSet) \/ ~(ms <= GET_LOCAL_TIME_MS)
  /\ localTimeCalls' = localTimeCalls + 1
  /\ polls' = 0
  /\ ms' = 0
  /\ LET attempts == 0
     IN IF ~GetLocalTimeOk(clock, tzSet) /\ attempts < 3
          THEN /\ failed' = "time"
               /\ wifiUp' = FALSE
               /\ pc' = "beginDeepSleep"
               /\ events' = events \o <<"waitForSNTPSync">>
               /\ UNCHANGED <<clock, timeInfo, sleepFrom, waitSec,
                              sleepMinutes, sleepDuration, sleepCalls>>
          ELSE /\ Advance(clock, LocalTime(clock, tzSet),
                          StageAfter(sketch, "waitForSNTPSync"),
                          <<"waitForSNTPSync">>)
               /\ UNCHANGED <<failed, wifiUp>>
  /\ UNCHANGED <<sketch, tzSet, pwrPin, syncTimedOut, slotMinute, postCode,
                 wokeFrom>>

\* getLocalTime returns to beginDeepSleep, which computes the duration from
\* whatever was read and suspends
BeginDeepSleepReturn ==
  /\ pc = "beginDeepSleep"
  /\ GetLocalTimeOk(clock, tzSet) \/ ~(ms <= GET_LOCAL_TIME_MS)
  /\ BeginDeepSleepTail(clock, LocalTime(clock, tzSet), "returned", <<>>)
  /\ UNCHANGED <<sketch, tzSet, wifiUp, pwrPin, failed, syncTimedOut,
                 slotMinute, postCode, pollVars>>

\* the timer fires exactly sleepDuration seconds after the suspend call
WakeExact ==
  /\ pc = "asleep"
  /\ clock + sleepDuration \in PollClockDomain
  /\ WakeAt(clock + sleepDuration)

\* the steps of one wake cycle, from reset to the suspend call
CycleStep ==
  \/ WiFiPoll
  \/ WiFiDone
  \/ SyncPoll
  \/ SyncGiveUp
  \/ SntpPoll
  \/ SntpTimeout
  \/ TimeReadPoll
  \/ PrintLocalTimeReturn
  \/ BeginDeepSleepReturn
  \/ SlotCheck
  \/ InitBME
  \/ ReadSensor
  \/ Post
  \/ FinalSleep

NextPoll == CycleStep \/ WakeExact

SpecPoll == InitPoll /\ [][NextPoll]_vars

\* setup() runs on a single thread and no step of it waits for anything
\* but the passing of time: an enabled step is eventually taken
SpecPollLive == SpecPoll /\ WF_vars(CycleStep)

(* ------ secondsUntilNextHalfHourSlot over winter and summer instants ---- *)

\* 2024-07-01 10:00:00 UTC (11:00 WEST) and 22:30:00 UTC (23:30 WEST: the
\* window crosses local midnight)
SummerBase == 955460 * 1800
SummerNightBase == 955485 * 1800

SlotFnClocks ==
  (WindowBaseB .. (WindowBaseB + WindowSecs - 1))
  \cup (SummerBase .. (SummerBase + WindowSecs - 1))
  \cup (SummerNightBase .. (SummerNightBase + WindowSecs - 1))

\* the slot sketch about to call initBME(), the argument nowLocal of
\* secondsUntilNextHalfHourSlot drawn from every second of the windows
InitSlotFn ==
  /\ sketch = "slot"
  /\ pc = "initBME"
  /\ clock \in SlotFnClocks
  /\ tzSet = TRUE
  /\ wifiUp = TRUE
  /\ pwrPin = "LOW"
  /\ timeInfo = ZeroTm
  /\ events = <<"connectWiFi", "syncTime", "slotCheck">>
  /\ failed = "none"
  /\ syncTimedOut = FALSE
  /\ slotMinute = LocalTime(clock, TRUE).min
  /\ sleepFrom = -1
  /\ waitSec = 0
  /\ sleepMinutes = 0
  /\ sleepDuration = 0
  /\ sleepCalls = 0
  /\ postCode = 0
  /\ polls = 0
  /\ ms = 0
  /\ localTimeCalls = 0
  /\ wokeFrom = "boot"

NextSlotFn == InitBME

SpecSlotFn == InitSlotFn /\ [][NextSlotFn]_vars

(* ------------------------------ properties ----------------------------- *)

Asleep == pc = "asleep"
Has(ev) == \E i \in 1 .. Len(events) : events[i] = ev
StagesRun == SelectSeq(events, LAMBDA ev : ev # "sleep")

FullOrder(sk) ==
  IF sk = "slot"
    THEN <<"connectWiFi", "syncTime", "slotCheck", "initBME", "readSensor",
           "powerDown", "post">>
    ELSE <<"connectWiFi", "waitForSNTPSync", "initBME", "readSensor",
           "powerDown", "post">>

IsPrefix(a, b) == Len(a) <= Len(b) /\ \A i \in 1 .. Len(a) : a[i] = b[i]

\* C1: in a wake cycle the deep-sleep primitive is called at most once and
\* nothing (no stage, no second sleep call) is executed after that call
C1_SingleSleepIsLast ==
  /\ sleepCalls <= 1
  /\ \A i \in 1 .. Len(events) : events[i] = "sleep" => i = Len(events)
  /\ Asleep <=> sleepCalls = 1

C1_Witness ==
  /\ Asleep /\ sleepCalls = 1 /\ failed = "network"
  /\ events = <<"connectWiFi", "sleep">>

\* C2 (as claimed): whenever a stage (network, time sync, sensor init,
\* transmit) has failed, the device sleeps the fixed 60 s fallback
C2_FailureSleepsFallback ==
  (Asleep /\ failed # "none") => sleepDuration = FALLBACK_SLEEP

\* C3: the stages executed in a cycle are a prefix of the fixed order
\* network, time sync, (slot check), sensor init, read, power-down, POST; and
\* after a network, time-sync or sensor-init failure the failed stage is the
\* last one executed (no sensor read, no POST)
C3_StageOrder ==
  /\ IsPrefix(StagesRun, FullOrder(sketch))
  /\ failed = "network" => StagesRun = <<"connectWiFi">>
  /\ failed = "time" => Len(StagesRun) = 2
  /\ failed = "sensor" =>
       /\ StagesRun[Len(StagesRun)] = "initBME"
       /\ ~Has("readSensor") /\ ~Has("post")
  /\ failed \in {"network", "time", "sensor"} => Asleep

C3_Witness ==
  /\ Asleep /\ failed = "sensor" /\ sketch = "slot"
  /\ StagesRun = <<"connectWiFi", "syncTime", "slotCheck", "initBME">>

\* C4 (as claimed): when the time-synchronization wait ran out without
\* success the cycle ends with a 60 s sleep and the sensor power pin was
\* never driven high
C4_TimeSyncFailureSleeps60 ==
  (Asleep /\ syncTimedOut) =>
    (sleepDuration = FALLBACK_SLEEP /\ ~Has("initBME") /\ pwrPin = "LOW")

\* C5 (as claimed): when the device suspends, the sensor power pin is low
C5_PowerLowAtSuspend ==
  Asleep => pwrPin = "LOW"

SlotMiss == sketch = "slot" /\ slotMinute # -1 /\ slotMinute \notin {0, 30}

\* C6 (as claimed): in the slot sketch the sensor is powered or read and a
\* POST is sent only when the slot check saw minute 0 or 30; otherwise the
\* device sleeps exactly the seconds to the next multiple of 1800
C6_SlotMissSleepsToBoundary ==
  /\ (sketch = "slot" /\ (Has("initBME") \/ Has("readSensor") \/ Has("post")))
       => slotMinute \in {0, 30}
  /\ (SlotMiss /\ Asleep) =>
       /\ pwrPin = "LOW" /\ ~Has("initBME") /\ ~Has("readSensor")
       /\ ~Has("post")
       /\ sleepDuration = PERIOD - (sleepFrom % PERIOD)

\* C6 (amended): as above, but the duration slept is the seconds to the next
\* multiple of 1800 raised to the 10 s minimum of deepSleepSeconds
C6_SlotMissSleepsClamped ==
  /\ (sketch = "slot" /\ (Has("initBME") \/ Has("readSensor") \/ Has("post")))
       => slotMinute \in {0, 30}
  /\ (SlotMiss /\ Asleep) =>
       /\ pwrPin = "LOW" /\ ~Has("initBME") /\ ~Has("readSensor")
       /\ ~Has("post")
       /\ LET toBoundary == PERIOD - (sleepFrom % PERIOD)
          IN sleepDuration = (IF toBoundary < 10 THEN 10 ELSE toBoundary)

C6_Witness ==
  /\ SlotMiss /\ Asleep /\ slotMinute = 29
  /\ sleepFrom % PERIOD = PERIOD - 5 /\ sleepDuration = 10

\* the sleep of the slot sketch was computed by
\* secondsUntilNextHalfHourBoundary (slot miss or end of setup)
BoundarySleep ==
  sketch = "slot" /\ Asleep /\ Has("slotCheck") /\ failed # "sensor"

\* 10:17:00, 10:29:50 and 10:29:55 UTC of 2023-11-15
T101700 == WindowBaseB + 17 * 60
T102950 == WindowBaseB + 29 * 60 + 50
T102955 == WindowBaseB + 29 * 60 + 55

\* C7: the boundary computed from now is the smallest multiple of 1800
\* strictly above now (the 'next <= now' branch is not taken), the wait is
\* 1800 - (now mod 1800), within 1..1800, and it is 780 s at 10:17:00
C7_NextBoundary ==
  BoundarySleep =>
    /\ nextHalfHourBoundary(sleepFrom) = sleepFrom + waitSec
    /\ (sleepFrom + waitSec) % PERIOD = 0
    /\ waitSec >= 1 /\ waitSec <= PERIOD
    /\ waitSec = PERIOD - (sleepFrom % PERIOD)
    /\ nextHalfHourBoundary(sleepFrom) > sleepFrom
    /\ sleepFrom = T101700 => waitSec = 780

C7_Witness ==
  BoundarySleep /\ sleepFrom = T101700 /\ waitSec = 780

\* C8 (as claimed): at 10:29:50 the duration slept is not 10 s
C8_NotTenSeconds ==
  (BoundarySleep /\ sleepFrom = T102950) => sleepDuration # 10

\* C8 (amended): at 10:29:50 the computed wait is 10 s, which is not below
\* the configured minimum of 10 s, so the device sleeps exactly 10 s; the
\* clamp changes only waits below 10 s (at 10:29:55 the wait of 5 s is
\* slept as 10 s)
C8_SleepsTheMinimum ==
  /\ (BoundarySleep /\ sleepFrom = T102950) =>
       (waitSec = 10 /\ sleepDuration = 10)
  /\ (BoundarySleep /\ sleepFrom = T102955) =>
       (waitSec = 5 /\ sleepDuration = 10)
  /\ BoundarySleep =>
       /\ sleepDuration >= 10
       /\ waitSec >= 10 => sleepDuration = waitSec

C8_Witness ==
  BoundarySleep /\ sleepFrom = T102950 /\ SlotMiss /\ sleepDuration = 10

DriftSleep == sketch = "drift" /\ Asleep

\* seconds of the local time in timeInfo counted from the reference hour
SinceReference ==
  ((timeInfo.hour - 6 + 24) % 24) * 3600 + timeInfo.min * 60 + timeInfo.sec

\* C9: the duration computed by beginDeepSleep is positive and at least the
\* seconds left to the next 30-minute boundary counted from the reference
\* hour, for the local time it read
C9_NeverBeforeBoundary ==
  DriftSleep =>
    /\ timeInfo = LocalTime(sleepFrom, tzSet)
    /\ sleepDuration > 0
    /\ sleepDuration >= 1800 - (SinceReference % 1800)

C9_Witness ==
  /\ DriftSleep /\ timeInfo.hour = 5 /\ timeInfo.min = 59
  /\ timeInfo.sec = 59 /\ sleepDuration > 1800

\* C10: beginDeepSleep sleeps one extra period of 30 minutes exactly when
\* the elapsed fraction of the period is >= 0.95 or fewer than 120 s remain;
\* otherwise it sleeps the naive 'period minus offset' minutes
C10_SkipAhead ==
  DriftSleep =>
    LET offset == SinceReference % 1800
        naive == 30 - ((SinceReference \div 60) % 30)
        skip == (offset * 100 >= 95 * 1800) \/ (1800 - offset < 120)
    IN sleepMinutes = (IF skip THEN naive + 30 ELSE naive)

C10_Witness ==
  /\ DriftSleep /\ timeInfo.min = 28 /\ timeInfo.sec = 1
  /\ sleepMinutes = 32

\* C11: every duration handed to the timer wakeup, on any path of either
\* sketch, is at least 10 s
C11_AtLeastMinimum ==
  Asleep => sleepDuration >= 10

C11_Witness ==
  /\ Asleep /\ sketch = "slot" /\ waitSec = 1 /\ sleepDuration = 10

\* C16: beginDeepSleep's duration is floor((sleepMinutes*60 - second + 3)
\* * 1.0015); at 06:01:00 the offset is 1 minute, no period is skipped,
\* sleepMinutes is 29 and the duration is 1745 s
C16_DurationFormula ==
  DriftSleep =>
    /\ sleepDuration
         = ((sleepMinutes * 60 - timeInfo.sec + 3) * 10015) \div 10000
    /\ (timeInfo.hour = 6 /\ timeInfo.min = 1 /\ timeInfo.sec = 0) =>
         /\ (SinceReference \div 60) % 30 = 1
         /\ sleepMinutes = 29
         /\ sleepDuration = 1745

C16_Witness ==
  /\ DriftSleep /\ timeInfo.hour = 6 /\ timeInfo.min = 1 /\ timeInfo.sec = 0
  /\ sleepMinutes = 29 /\ sleepDuration = 1745

\* seconds from the time read to the boundary beginDeepSleep aims at: the
\* next 30-minute boundary, or the one after it when fewer than 120 s remain
TargetDistance ==
  LET remaining == 1800 - (SinceReference % 1800)
  IN IF remaining < 120 THEN remaining + 1800 ELSE remaining

\* C17: the duration computed by beginDeepSleep lies between 123 s and
\* 1924 s and overshoots the boundary it aims at by at most 6 s
C17_DurationRange ==
  DriftSleep =>
    /\ sleepDuration >= 123 /\ sleepDuration <= 1924
    /\ sleepDuration - TargetDistance >= 0
    /\ sleepDuration - TargetDistance <= 6

C17_Witness ==
  DriftSleep /\ sleepDuration = 123 /\ TargetDistance = 120

\* C20: with the 30-minute period the duration does not depend on the
\* reference hour: for each of the values 0..23 of WAKE_TIME it equals the
\* duration for reference hour 0, and the offset within the period is
\* (minute mod 30) * 60 + second
C20_ReferenceHourIrrelevant ==
  DriftSleep =>
    /\ sleepDuration = SleepDurationAt(timeInfo, WAKE_TIME)
    /\ \A w \in 0 .. 23 :
         SleepDurationAt(timeInfo, w) = SleepDurationAt(timeInfo, 0)
    /\ OffsetSeconds(timeInfo) = (timeInfo.min % 30) * 60 + timeInfo.sec

C20_Witness ==
  /\ DriftSleep /\ timeInfo.hour = 23 /\ timeInfo.min = 44
  /\ SleepDurationAt(timeInfo, 0) = sleepDuration /\ sleepMinutes = 16

\* C15 (as claimed): a POST status is a success exactly when it is 200, 201
\* or 204, and any other status (-1 and values <= 0 included) becomes the
\* outcome of the cycle: setup() ends through the success path only when the
\* POST succeeded
C15_TransmitOutcome ==
  (Asleep /\ Has("post")) =>
    /\ (failed = "transmit") <=> (postCode \notin {200, 201, 204})
    /\ (SleepBranch = "done") <=> (postCode \in {200, 201, 204})

\* the slot sketch asleep after initBME() failed: waitSec is the value
\* secondsUntilNextHalfHourSlot returned for sleepFrom
SensorFailSleep == sketch = "slot" /\ Asleep /\ failed = "sensor"

\* C19: with the zone of TZ_INFO (offset 0 or 60 minutes) and no DST change
\* between now and the target, secondsUntilNextHalfHourSlot(now) equals
\* secondsUntilNextHalfHourBoundary(now), and its target is after now, so
\* the 'targetEpoch <= nowLocal' fallback of 60 s is not taken
C19_SlotEqualsBoundary ==
  SensorFailSleep =>
    /\ waitSec = secondsUntilNextHalfHourBoundary(sleepFrom)
    /\ SlotTargetEpoch(sleepFrom, tzSet) > sleepFrom
    /\ waitSec = SlotTargetEpoch(sleepFrom, tzSet) - sleepFrom

C19_Witness ==
  /\ SensorFailSleep
  /\ IsDst(sleepFrom)
  /\ LocalTime(sleepFrom, tzSet).hour = 23
  /\ LocalTime(sleepFrom, tzSet).min = 45
  /\ waitSec = 900

\* C14 (as claimed): printLocalTime reports failure only after the read of
\* the time has been tried 3 times
C14_FailureAfterThreeReads ==
  (sketch = "drift" /\ failed = "time") => localTimeCalls >= 3

\* what a step taken inside syncTime may do, polls being the number of
\* polls that read an epoch at or below the threshold so far
SyncTimeStep ==
  pc = "syncTime" =>
    /\ polls <= 40
    /\ (polls < 40 /\ clock > 1700000000) =>
         (pc' = "slotCheck" /\ failed' = "none" /\ clock' = clock)
    /\ (polls < 40 /\ clock <= 1700000000) =>
         (pc' = "syncTime" /\ polls' = polls + 1)
    /\ pc' = "slotCheck" => (clock > 1700000000 /\ polls < 40)
    /\ polls = 40 => (pc' = "asleep" /\ failed' = "time")
    /\ failed' = "time" => polls = 40

\* C13: syncTime makes at most 40 polls; the first poll that reads an epoch
\* above 1700000000 returns true, 40 polls at or below it return false, and
\* true is never returned for an epoch at or below the threshold
C13_SyncTimePolls == [][SyncTimeStep]_vars

C13_Witness ==
  /\ sketch = "slot"
  /\ pc = "slotCheck"
  /\ polls = 39
  /\ clock = 1700000001

\* the position of a stage in setup()
StageRank(stage) ==
  CASE stage = "connectWiFi" -> 1
    [] stage \in {"syncTime", "waitForSNTPSync"} -> 2
    [] stage = "printLocalTime" -> 3
    [] stage = "slotCheck" -> 4
    [] stage = "initBME" -> 5
    [] stage = "readSensor" -> 6
    [] stage = "post" -> 7
    [] stage = "finalSleep" -> 8
    [] stage = "beginDeepSleep" -> 9
    [] OTHER -> 10

\* every wait loop is within its deadline: 15 s for WiFi, 40 polls or 20 s
\* for the time sync, 5 s (and one last 10 ms delay) for a read of the time
WaitsBounded ==
  /\ pc = "connectWiFi" => (ms <= 15000 /\ polls <= 60)
  /\ pc = "syncTime" => (polls <= 40 /\ ms <= 10000)
  /\ pc = "waitForSNTPSync" => (ms <= 20000 /\ polls <= 200)
  /\ pc \in {"printLocalTime", "beginDeepSleep"} =>
       (ms <= 5010 /\ polls <= 501)

\* within a cycle setup() only moves forward, and once a stage has failed
\* nothing runs but the way to the suspend call
NoRestart ==
  pc # "asleep" =>
    /\ StageRank(pc') >= StageRank(pc)
    /\ failed # "none" => pc' \in {pc, "asleep"}

\* C12: every wake cycle reaches the suspend call whatever fails, every wait
\* loop stays within its bound, and no stage loops back or restarts an
\* earlier stage of the cycle
C12_ReachesSuspend ==
  /\ []WaitsBounded
  /\ [][NoRestart]_vars
  /\ (pc # "asleep") ~> (pc = "asleep")

C12_Witness ==
  /\ sketch = "drift"
  /\ Asleep
  /\ failed = "network"
  /\ events = <<"connectWiFi", "sleep">>
  /\ clock = 20
  /\ ms = 5010

\* a cycle of the slot sketch that follows a sleep started by the failed
\* slot check or by the end of setup(), the timer having been exact
AlignedWake == sketch = "slot" /\ wokeFrom \in {"slotMiss", "done"}

====
